---- MODULE Spec2Model ----
(***************************************************************************)
(* Model of the optimizers of david-zip/optimization_algorithms:           *)
(*   - class SA (algorithms/simulated_annealling.py): simulated annealing  *)
(*     with geometric cooling, run by temperature (algorithm) or by wall   *)
(*     clock (time_algorithm);                                             *)
(*   - the artificial bee colony script practice/artificial_bee_colony/    *)
(*     abc_2.py.                                                           *)
(*                                                                         *)
(* Arithmetic.  The temperatures are binary floating-point numbers.  The   *)
(* model keeps them in a binary format of fewer significand bits: a        *)
(* temperature is a whole number of units of 1/Prec, Prec a power of two,  *)
(* and the configured temperatures lie between 1/2 and 1, where these are  *)
(* exactly the numbers of the format.  Division and multiplication round   *)
(* to the nearest number, ties to even, as IEEE 754 does; the power        *)
(* function returns one of the two numbers next to the exact root.         *)
(***************************************************************************)
EXTENDS Integers, Sequences, FiniteSets

\* ---------------------------------------------------------------- bounds
\* largest maxIter and maxTime a configuration is given, number of clock
\* readings of one run that show no progress, number of runs of one instance
MaxIterBound == 2
\* passes beyond maxIter + 1 that a run of algorithm is followed for
MaxOverrun == 1
MaxTimeBound == 3
MaxStall == 1
MaxRuns == 2

\* ------------------------------------------------------- SA: input sets
Prec == 2 * 2 * 2 * 2
Zero == [sign |-> "zero", val |-> 0]
Positive(t) == [sign |-> "pos", val |-> t]
NoRun == <<>>
NoDraw == "nodraw"

\* Ti is 1, 3/4 or 0; Tf is 1/2 or 15/16
TiChoices == {Positive(Prec), Positive((3 * Prec) \div 4), Zero}
TfChoices == {Prec \div 2, Prec - 1}
MaxIterChoices == 1..MaxIterBound
MaxTimeChoices == {0, MaxTimeBound}
XBoundsChoices == {<<0, 1>>, <<1, 0>>}
YBoundsChoices == {<<0, 0>>}
Objectives == {"sphere", "booth"}
\* the uniform draw r of _find_best, by where it falls against the
\* Metropolis threshold exp((best - new)/T) of a strictly worse candidate:
\*   "lo"  below the threshold at every temperature (r = 0.0),
\*   "hi"  at or above it at every temperature,
\*   "mid" below it exactly while T is above the geometric mean of Ti and Tf
RDraws == {"lo", "mid", "hi"}
\* growth of time.time() - time_start over one pass of the loop
Ticks == {0, 2}
\* which neighbour of the exact root the power function returns
RootChoices == {"below", "above"}
Modes == {"iter", "time"}

VARIABLES
    \* SA instance attributes set by __init__
    obj, xlb, xub, ylb, yub, Ti0, Tf0, T0, eps0, maxIter, maxTime,
    \* SA instance attributes set while running
    Ti, Tf, T, eps, best_solution, best_value, new_solution, new_value,
    \* locals of algorithm / time_algorithm
    pc, mode, fobj, best_values, best_values_time, nIter, time_elapsed,
    \* the random draws and clock readings consumed by the current run, the
    \* record of the previous run, and the number of runs started
    draws, prev, runs

saVars == <<obj, xlb, xub, ylb, yub, Ti0, Tf0, T0, eps0, maxIter, maxTime,
            Ti, Tf, T, eps, best_solution, best_value, new_solution, new_value,
            pc, mode, fobj, best_values, best_values_time, nIter, time_elapsed,
            draws, prev, runs>>

VARIABLES
    \* module-level state of abc_2.py: the two dictionaries keyed by bee, the
    \* abandonment counters, the incumbent and the termination bookkeeping
    employed_bee_militia, employed_bee_solutions, abandon_food,
    hive_best_value, hive_best_sol, old_best_value, end_counter, iter_count,
    sol_prob,
    \* position of the script: the phase and the bee its for loop is at
    phase, bee,
    \* number of consecutive completed iterations whose change of the best
    \* value stayed below the convergence threshold
    stagnant

abcVars == <<employed_bee_militia, employed_bee_solutions, abandon_food,
             hive_best_value, hive_best_sol, old_best_value, end_counter,
             iter_count, sol_prob, phase, bee, stagnant>>

vars == <<saVars, abcVars>>

\* ------------------------------------------------------------ helpers
Min2(a, b) == IF a <= b THEN a ELSE b
Max2(a, b) == IF a >= b THEN a ELSE b

\* objective functions of the __main__ block
f(fn, x, y) ==
    IF fn = "sphere" THEN x * x + y * y
    ELSE (x + 2 * y - 7) * (x + 2 * y - 7) + (2 * x + y - 5) * (2 * x + y - 5)

\* np.random.uniform(lb, ub) on the integer grid of the interval
Uniform(lb, ub) == lb..ub

\* n / d rounded to the nearest whole number, ties to even (n >= 0, d > 0)
RoundNearest(n, d) ==
    LET q == n \div d
        r == n % d
    IN IF 2 * r > d \/ (2 * r = d /\ q % 2 = 1) THEN q + 1 ELSE q

RECURSIVE Power(_, _)
Power(k, n) == IF n = 0 THEN 1 ELSE k * Power(k, n - 1)

\* (Tf/Ti)**(maxIter**(-1)) in units of 1/Prec: the quotient q = Tf/Ti is
\* rounded, and the root is the number just below or just above q^(1/m),
\* or q^(1/m) itself where that is a number of the format
RootBelow(q, m) ==
    CHOOSE k \in 0..(2 * Prec) :
        /\ Power(k, m) <= q * Power(Prec, m - 1)
        /\ Power(k + 1, m) > q * Power(Prec, m - 1)
Root(q, m, side) ==
    LET k == RootBelow(q, m) IN
    IF side = "below" \/ Power(k, m) = q * Power(Prec, m - 1) THEN k ELSE k + 1

\* r < np.exp((best_value - new_value) / T), reached with new >= best
Metropolis(best, new, t, r, ti, tf) ==
    IF new = best THEN TRUE
    ELSE CASE r = "lo" -> TRUE
           [] r = "hi" -> FALSE
           [] OTHER -> t * t > ti * tf

\* ------------------------------------------------------------ SA.__init__
SAInit ==
    /\ obj = "none"
    /\ xlb = 0 /\ xub = 0 /\ ylb = 0 /\ yub = 0
    /\ Ti0 = 0 /\ Tf0 = 0 /\ T0 = 0 /\ eps0 = 0
    /\ maxIter = 1 /\ maxTime = 0
    /\ Ti = 0 /\ Tf = 0 /\ T = 0 /\ eps = 0
    /\ best_solution = <<0, 0>> /\ best_value = 0
    /\ new_solution = <<0, 0>> /\ new_value = 0
    /\ pc = "idle" /\ mode = "iter" /\ fobj = "sphere"
    /\ best_values = <<>> /\ best_values_time = <<>>
    /\ nIter = 0 /\ time_elapsed = 0
    /\ draws = [init |-> <<0, 0>>, steps |-> <<>>]
    /\ prev = NoRun
    /\ runs = 0

\* Tf/Ti raises ZeroDivisionError when Ti is zero; nothing else is checked
Construct(xBounds, yBounds, ti, tf, m, mt, side) ==
    /\ obj = "none"
    /\ IF ti = Zero
       THEN /\ obj' = "error"
            /\ xlb' = Min2(xBounds[1], xBounds[2])
            /\ xub' = Max2(xBounds[1], xBounds[2])
            /\ ylb' = Min2(yBounds[1], yBounds[2])
            /\ yub' = Max2(yBounds[1], yBounds[2])
            /\ UNCHANGED <<Ti0, Tf0, T0, eps0, maxIter, maxTime>>
       ELSE /\ obj' = "ok"
            /\ xlb' = Min2(xBounds[1], xBounds[2])
            /\ xub' = Max2(xBounds[1], xBounds[2])
            /\ ylb' = Min2(yBounds[1], yBounds[2])
            /\ yub' = Max2(yBounds[1], yBounds[2])
            /\ Ti0' = ti.val
            /\ Tf0' = tf
            /\ T0' = ti.val
            /\ eps0' = Prec - Root(RoundNearest(tf * Prec, ti.val), m, side)
            /\ maxIter' = m
            /\ maxTime' = mt
    /\ UNCHANGED <<Ti, Tf, T, eps, best_solution, best_value, new_solution,
                   new_value, pc, mode, fobj, best_values, best_values_time,
                   nIter, time_elapsed, draws, prev, runs>>
    /\ UNCHANGED abcVars

\* ------------------------------------------------------- SA._initialize
\* _initialize that leaves the temperature of the previous run in place
initialize_stale(fn, x, y) ==
    [best_solution |-> <<x, y>>,
     best_value |-> f(fn, x, y),
     Ti |-> Ti0,
     Tf |-> Tf0,
     T |-> T,
     eps |-> eps0]

\* result of _initialize for the drawn point <<x, y>>
initialize(fn, x, y) ==
    [best_solution |-> <<x, y>>,
     best_value |-> f(fn, x, y),
     Ti |-> Ti0,
     Tf |-> Tf0,
     T |-> Ti0,
     eps |-> eps0]

\* ------------------------------------------------ SA._neighbourhood_search
neighbourhood_search(fn, x, y) ==
    [new_solution |-> <<x, y>>, new_value |-> f(fn, x, y)]

\* ------------------------------------------------------- SA._find_best
find_best(bs, bv, ns, nv, t, r) ==
    IF nv < bv
    THEN [best_solution |-> ns, best_value |-> nv]
    ELSE IF Metropolis(bv, nv, t, r, Ti, Tf)
         THEN [best_solution |-> ns, best_value |-> nv]
         ELSE [best_solution |-> bs, best_value |-> bv]

\* --------------------------------------------------- SA._cooling_schedule
\* T *= (1 - eps); 1 - eps is exact, the product is rounded
cooling_schedule(t, e) == RoundNearest(t * (Prec - e), Prec)

\* ------------------------------------------------- the draws of one run
Replaying == prev # NoRun

InitDraws ==
    IF Replaying THEN {prev[1].draws.init}
    ELSE {<<x, y>> : x \in Uniform(xlb, xub), y \in Uniform(ylb, yub)}

\* r is drawn only in the else branch of _find_best; the clock is read only
\* by time_algorithm
StepDraws(m) ==
    IF Replaying /\ nIter < Len(prev[1].draws.steps)
    THEN {prev[1].draws.steps[nIter + 1]}
    ELSE {[p |-> <<x, y>>, r |-> r, tick |-> d] :
            x \in Uniform(xlb, xub), y \in Uniform(ylb, yub),
            r \in RDraws \cup {NoDraw},
            d \in Ticks}

Stalls(steps) == Cardinality({i \in 1..Len(steps) : steps[i].tick = 0})

\* a draw the pass can consume: no r in the if branch of _find_best, r below
\* the threshold exp(0) = 1 for an equal candidate, no clock reading in
\* algorithm, which is followed for at most maxIter + 1 + MaxOverrun passes,
\* at most MaxStall readings without progress
DrawFits(d, m) ==
    /\ (d.r = NoDraw) <=> (f(fobj, d.p[1], d.p[2]) < best_value)
    /\ f(fobj, d.p[1], d.p[2]) = best_value => d.r = "lo"
    /\ m = "iter" => d.tick = 0 /\ nIter <= maxIter + MaxOverrun
    /\ m = "time" /\ d.tick = 0 => Stalls(draws.steps) < MaxStall

\* ------------------------------------------ SA.algorithm / time_algorithm
\* best_values = [] ... best_values.append(self.best_value) before the loop
InitialTrace_empty(v) == <<>>
InitialTrace(v) == <<v>>

\* lines up to the loop: best_values = [], _initialize, append, nIter = 0
Start(m, fn) ==
    /\ obj = "ok"
    /\ pc \in {"idle", "done"}
    /\ runs < MaxRuns
    /\ Replaying => m = prev[1].mode /\ fn = prev[1].fobj
    /\ \E p \in InitDraws :
         LET s == initialize(fn, p[1], p[2]) IN
         /\ best_solution' = s.best_solution
         /\ best_value' = s.best_value
         /\ Ti' = s.Ti
         /\ Tf' = s.Tf
         /\ T' = s.T
         /\ eps' = s.eps
         /\ best_values' = InitialTrace(s.best_value)
         /\ draws' = [init |-> p, steps |-> <<>>]
    /\ best_values_time' = <<>>
    /\ nIter' = 0
    /\ time_elapsed' = 0
    /\ mode' = m
    /\ fobj' = fn
    /\ pc' = "loop"
    /\ runs' = runs + 1
    /\ UNCHANGED <<obj, xlb, xub, ylb, yub, Ti0, Tf0, T0, eps0, maxIter,
                   maxTime, new_solution, new_value, prev>>
    /\ UNCHANGED abcVars

algorithm(fn) == Start("iter", fn)
time_algorithm(fn) == Start("time", fn)

\* while self.T > self.Tf
IterLoopCondition == T > Tf

\* while time_elapsed < self.maxTime
TimeLoopCondition_inclusive == time_elapsed <= maxTime
TimeLoopCondition == time_elapsed < maxTime

LoopCondition ==
    IF mode = "iter" THEN IterLoopCondition ELSE TimeLoopCondition

\* one pass of the while body
Iterate ==
    /\ pc = "loop"
    /\ LoopCondition
    /\ \E d \in StepDraws(mode) :
         /\ DrawFits(d, mode)
         /\ LET n == neighbourhood_search(fobj, d.p[1], d.p[2])
                b == find_best(best_solution, best_value,
                               n.new_solution, n.new_value, T, d.r)
            IN /\ new_solution' = n.new_solution
               /\ new_value' = n.new_value
               /\ best_solution' = b.best_solution
               /\ best_value' = b.best_value
               /\ T' = cooling_schedule(T, eps)
               /\ best_values' = Append(best_values, b.best_value)
               /\ IF mode = "time"
                  THEN /\ time_elapsed' = time_elapsed + d.tick
                       /\ best_values_time' =
                              Append(best_values_time, time_elapsed + d.tick)
                  ELSE UNCHANGED <<time_elapsed, best_values_time>>
               /\ draws' = [draws EXCEPT !.steps = Append(@, d)]
    /\ nIter' = nIter + 1
    /\ UNCHANGED <<obj, xlb, xub, ylb, yub, Ti0, Tf0, T0, eps0, maxIter,
                   maxTime, Ti, Tf, eps, pc, mode, fobj, prev, runs>>
    /\ UNCHANGED abcVars

\* loop exit and return of the traces
Finish ==
    /\ pc = "loop"
    /\ ~LoopCondition
    /\ pc' = "done"
    /\ prev' = IF Replaying THEN prev
               ELSE <<[draws |-> draws, mode |-> mode, fobj |-> fobj,
                       best_values |-> best_values,
                       best_values_time |-> best_values_time]>>
    /\ UNCHANGED <<obj, xlb, xub, ylb, yub, Ti0, Tf0, T0, eps0, maxIter,
                   maxTime, Ti, Tf, T, eps, best_solution, best_value,
                   new_solution, new_value, mode, fobj, best_values,
                   best_values_time, nIter, time_elapsed, draws, runs>>
    /\ UNCHANGED abcVars


\* ======================================================== abc_2.py
(***************************************************************************)
(* Arithmetic.  The script fixes a = 20 and b = 100 in f.  Positions are   *)
(* kept in units of 1/a (x = X/a, y = Y/a) and objective values in units   *)
(* of b/a^4, in which                                                      *)
(*     f(x, y) = (a - x)^2 + b (y - x^2)^2                                 *)
(* is the integer (a^2/b) (a^2 - X)^2 + (a Y - X^2)^2.  A value is the     *)
(* pair [hi, lo] standing for hi * 10^6 + lo with 0 <= lo < 10^6, so that  *)
(* the squares stay exact.                                                 *)
(***************************************************************************)
a == 20
b == 100
\* the colony is followed with NBees bees, an abandonment limit of AbandonLimit
\* and a break after StagnationRounds counted rounds, where the script has
\* 50, 100 and 10, for the first MaxIterCount iterations of its loop
NBees == 2
AbandonLimit == 2
StagnationRounds == 2
MaxIterCount == 3

Bees == 1..NBees
ValScale == (a * a * a * a) \div b
Limb == 1000 * 1000

Norm(h, l) == [hi |-> h + (l \div Limb), lo |-> l % Limb]
Small(n) == Norm(0, n)
VAdd(v, w) == Norm(v.hi + w.hi, v.lo + w.lo)
VScale(v, n) == Norm(v.hi * n, v.lo * n)
VLess(v, w) == v.hi < w.hi \/ (v.hi = w.hi /\ v.lo < w.lo)
VZero(v) == v.hi = 0 /\ v.lo = 0
Abs(n) == IF n < 0 THEN -n ELSE n
Square(d) ==
    LET d1 == Abs(d) \div 1000
        d0 == Abs(d) % 1000
        m == 2 * d1 * d0
    IN Norm(d1 * d1 + (m \div 1000), (m % 1000) * 1000 + d0 * d0)

\* def f(x, y) of abc_2.py
hive_f(X, Y) ==
    VAdd(Small(((a * a) \div b) * (a * a - X) * (a * a - X)),
         Square(a * Y - X * X))

\* a Python number in value units
Scaled(n) == Small(n * ValScale)

\* np.random.uniform(0, 10, [2, 1]): the coordinates drawn for a new bee
InitPoints == {<<0, 0>>, <<0, 10 * a>>}
\* np.random.uniform(0, a**2, [2, 1]): the points the employed and the scout
\* phase search towards
SearchPoints == {<<x, y>> : x \in {a * a - 1, a * a},
                            y \in {a * (a * a - 2), a * a * a}}
\* np.random.uniform(0, value[1], [2, 1]): each coordinate is 0 or value[1]/a
OnlookerSearch(pos) == {<<x, y>> : x \in {0, pos[2] \div a},
                                   y \in {0, pos[2] \div a}}
\* the factor r1 * r2 (employed), r1 * r2**r3 (onlooker), r2 (scout) of one
\* coordinate: the candidate stays put or lands on the search point
Factors == {<<cx, cy>> : cx \in {-1, 0}, cy \in {-1, 0}}
\* random.uniform(0, 1/(beehive_population/2)) as a multiple of 1/NBees
OnlookerDraws == {0, 1}

\* value[i] + r * (value[i] - new_search[i]) for i = 0, 1
Perturb(pos, c, srch) ==
    <<pos[1] + c[1] * (pos[1] - srch[1]), pos[2] + c[2] * (pos[2] - srch[2])>>

\* min(employed_bee_solutions, key=employed_bee_solutions.get): the first
\* bee in insertion order that holds the least value
min_sol_name(sols) ==
    CHOOSE n \in Bees :
        /\ \A k \in Bees : ~VLess(sols[k], sols[n])
        /\ \A k \in Bees : k < n => VLess(sols[n], sols[k])

RECURSIVE SumValues(_, _)
SumValues(sols, n) ==
    IF n = 0 THEN Small(0) ELSE VAdd(sols[n], SumValues(sols, n - 1))

\* value / sum(...) of line 80, kept as numerator and denominator; numpy
\* returns nan (with a warning) when the denominator is zero
Division(v, total) == [num |-> v, den |-> total]
IsNaN(q) == VZero(q.den)

\* r1 > sol_prob[name] with r1 = k/NBees; every comparison with nan is False
R1Greater(k, q) ==
    IF IsNaN(q) THEN FALSE ELSE VLess(VScale(q.num, NBees), VScale(q.den, k))

\* state of SpecABC's variables while the annealing class is exercised
ABCIdle ==
    /\ employed_bee_militia = <<>>
    /\ employed_bee_solutions = <<>>
    /\ abandon_food = <<>>
    /\ hive_best_value = Scaled(10)
    /\ hive_best_sol = <<0, 0>>
    /\ old_best_value = Scaled(11)
    /\ end_counter = 0
    /\ iter_count = 1
    /\ sol_prob = <<>>
    /\ phase = "idle"
    /\ bee = 1
    /\ stagnant = 0

\* lines 21-51: every bee gets a random position, the value of f at (x, x)
\* of that position (line 31 reads the x coordinate twice) and a counter of 0
ABCInit ==
    /\ employed_bee_militia \in [Bees -> InitPoints]
    /\ employed_bee_solutions =
           [n \in Bees |-> hive_f(employed_bee_militia[n][1],
                                  employed_bee_militia[n][1])]
    /\ abandon_food = [n \in Bees |-> 0]
    /\ hive_best_value = Scaled(10)
    /\ hive_best_sol = <<0, 0>>
    /\ old_best_value = Scaled(11)
    /\ end_counter = 0
    /\ iter_count = 1
    /\ sol_prob = <<>>
    /\ phase = "employed"
    /\ bee = 1
    /\ stagnant = 0

\* the shared tail of the two working phases (lines 69-75, 105-111)
ReplaceOrCount(n, candidate) ==
    LET new_sol_value == hive_f(candidate[1], candidate[2]) IN
    IF VLess(new_sol_value, employed_bee_solutions[n])
    THEN /\ employed_bee_militia' =
                [employed_bee_militia EXCEPT ![n] = candidate]
         /\ employed_bee_solutions' =
                [employed_bee_solutions EXCEPT ![n] = new_sol_value]
         /\ UNCHANGED abandon_food
    ELSE /\ abandon_food' = [abandon_food EXCEPT ![n] = @ + 1]
         /\ UNCHANGED <<employed_bee_militia, employed_bee_solutions>>

NextBee(next_phase) ==
    IF bee < NBees
    THEN bee' = bee + 1 /\ UNCHANGED phase
    ELSE bee' = 1 /\ phase' = next_phase

\* lines 56-75: one pass of the employed-bee loop
EmployedBee ==
    /\ phase = "employed"
    /\ iter_count <= MaxIterCount
    /\ \E new_search \in SearchPoints, c \in Factors :
         ReplaceOrCount(bee, Perturb(employed_bee_militia[bee], c, new_search))
    /\ NextBee("selection")
    /\ UNCHANGED <<hive_best_value, hive_best_sol, old_best_value, end_counter,
                   iter_count, sol_prob, stagnant>>

\* lines 77-80: the selection weights
Selection ==
    /\ phase = "selection"
    /\ sol_prob' = [n \in Bees |->
                      Division(employed_bee_solutions[n],
                               SumValues(employed_bee_solutions, NBees))]
    /\ phase' = "onlooker"
    /\ UNCHANGED <<employed_bee_militia, employed_bee_solutions, abandon_food,
                   hive_best_value, hive_best_sol, old_best_value, end_counter,
                   iter_count, bee, stagnant>>

\* lines 88-111: one pass of the onlooker loop
OnlookerBee ==
    /\ phase = "onlooker"
    /\ \E k \in OnlookerDraws :
         IF R1Greater(k, sol_prob[bee])
         THEN \E new_search \in OnlookerSearch(employed_bee_militia[bee]),
                 c \in Factors :
                ReplaceOrCount(bee,
                    Perturb(employed_bee_militia[bee], c, new_search))
         ELSE UNCHANGED <<employed_bee_militia, employed_bee_solutions,
                          abandon_food>>
    /\ NextBee("scout")
    /\ UNCHANGED <<hive_best_value, hive_best_sol, old_best_value, end_counter,
                   iter_count, sol_prob, stagnant>>

\* line 125 and 130: the position the scout perturbs
ScoutBase_incumbent == hive_best_sol
ScoutBase == employed_bee_militia[min_sol_name(employed_bee_solutions)]

\* lines 114-140: one pass of the scout loop
ScoutBee ==
    /\ phase = "scout"
    /\ IF abandon_food[bee] > AbandonLimit
       THEN \E new_search \in SearchPoints, r2 \in Factors :
              LET candidate == Perturb(ScoutBase, r2, new_search) IN
              /\ employed_bee_militia' =
                     [employed_bee_militia EXCEPT ![bee] = candidate]
              /\ employed_bee_solutions' =
                     [employed_bee_solutions EXCEPT
                        ![bee] = hive_f(candidate[1], candidate[2])]
              /\ abandon_food' = [abandon_food EXCEPT ![bee] = 0]
       ELSE UNCHANGED <<employed_bee_militia, employed_bee_solutions,
                        abandon_food>>
    /\ NextBee("update")
    /\ UNCHANGED <<hive_best_value, hive_best_sol, old_best_value, end_counter,
                   iter_count, sol_prob, stagnant>>

\* lines 143-148: the incumbent after the three phases
BestUpdate_tracksPopulation ==
    LET m == min_sol_name(employed_bee_solutions) IN
    [old |-> hive_best_value,
     sol |-> employed_bee_militia[m],
     value |-> employed_bee_solutions[m]]
BestUpdate ==
    LET m == min_sol_name(employed_bee_solutions) IN
    IF VLess(employed_bee_solutions[m], hive_best_value)
    THEN [old |-> hive_best_value,
          sol |-> employed_bee_militia[m],
          value |-> employed_bee_solutions[m]]
    ELSE [old |-> old_best_value, sol |-> hive_best_sol,
          value |-> hive_best_value]

\* best_value < 9e-3
BelowFloor(v) == v.hi = 0 /\ 1000 * v.lo < 9 * ValScale
\* abs_diff < 0.01 with abs_diff = old_best_value - best_value
AbsDiffSmall(old, best) ==
    VLess(VScale(old, 100), VAdd(VScale(best, 100), Small(ValScale)))
\* less than 0.01 between the best value before and after an iteration
ChangeSmall(before, after) ==
    /\ AbsDiffSmall(before, after)
    /\ AbsDiffSmall(after, before)

\* lines 142-173: incumbent, termination counters, break
Update ==
    /\ phase = "update"
    /\ LET u == BestUpdate
           counted == IF BelowFloor(u.value) /\ AbsDiffSmall(u.old, u.value)
                      THEN end_counter + 1 ELSE 0
       IN /\ old_best_value' = u.old
          /\ hive_best_sol' = u.sol
          /\ hive_best_value' = u.value
          /\ end_counter' = counted
          /\ iter_count' = iter_count + 1
          /\ phase' = IF counted = StagnationRounds THEN "done" ELSE "employed"
          /\ stagnant' = IF ChangeSmall(hive_best_value, u.value)
                         THEN stagnant + 1 ELSE 0
    /\ UNCHANGED <<employed_bee_militia, employed_bee_solutions, abandon_food,
                   sol_prob, bee>>

NextABC ==
    \/ EmployedBee /\ UNCHANGED saVars
    \/ Selection /\ UNCHANGED saVars
    \/ OnlookerBee /\ UNCHANGED saVars
    \/ ScoutBee /\ UNCHANGED saVars
    \/ Update /\ UNCHANGED saVars

InitABC == SAInit /\ ABCInit
SpecABC == InitABC /\ [][NextABC]_vars

Init == SAInit /\ ABCIdle

Next ==
    \/ \E xb \in XBoundsChoices, yb \in YBoundsChoices, ti \in TiChoices,
          tf \in TfChoices, m \in MaxIterChoices, mt \in MaxTimeChoices :
            \E side \in RootChoices : Construct(xb, yb, ti, tf, m, mt, side)
    \/ \E fn \in Objectives : algorithm(fn)
    \/ \E fn \in Objectives : time_algorithm(fn)
    \/ Iterate
    \/ Finish

Spec == Init /\ [][Next]_vars

\* the sequential program keeps executing its loop, and the wall clock advances
Advance == Iterate /\ time_elapsed' > time_elapsed
LiveSpec == Spec /\ WF_vars(Iterate) /\ WF_vars(Advance) /\ WF_vars(Finish)

\* ====================================================== properties of SA
ValidConfig == obj = "ok" /\ Ti0 > Tf0
Running == pc \in {"loop", "done"}
IsPrefix(s, t) == Len(s) <= Len(t) /\ \A i \in 1..Len(s) : s[i] = t[i]
NonIncreasing(s) == \A k \in 1..(Len(s) - 1) : s[k + 1] <= s[k]

\* C1: for a valid configuration the best-value trace never rises from one
\* entry to the next
C1_TraceNonIncreasing == ValidConfig /\ Running => NonIncreasing(best_values)

\* C2: for Ti > Tf > 0 a run of algorithm leaves its loop after maxIter - 1,
\* maxIter or maxIter + 1 passes, never runs further, ends with T not above Tf,
\* and every pass strictly lowers T
C2_IterBound ==
    ValidConfig /\ Running /\ mode = "iter" =>
        /\ nIter <= maxIter + 1
        /\ pc = "done" =>
              /\ nIter >= maxIter - 1
              /\ T <= Tf
C2_Cooling == ValidConfig /\ nIter' = nIter + 1 => T' < T
C2_Termination == []C2_IterBound /\ [][C2_Cooling]_vars

\* C3: the value trace has one entry per pass plus the initial one, which is
\* the objective at the initial point; the time trace of time_algorithm has
\* one entry per pass and algorithm records no times
C3_TraceShape ==
    Running =>
        /\ Len(best_values) = nIter + 1
        /\ best_values[1] = f(fobj, draws.init[1], draws.init[2])
        /\ Len(best_values_time) = (IF mode = "time" THEN nIter ELSE 0)
        /\ mode = "time" => Len(best_values_time) = Len(best_values) - 1
C3_Witness ==
    /\ pc = "done" /\ mode = "time" /\ nIter = 0
    /\ Len(best_values) = 1 /\ Len(best_values_time) = 0

\* C4: construction fails for Ti <= Tf, so no constructed instance with such
\* temperatures starts or completes a run
C4_NoRunFromInvalidConfig == obj = "ok" /\ Running => Ti0 > Tf0

\* C8: time_algorithm ends with the elapsed time at or past maxTime, every
\* recorded time but the last is below maxTime and the last is not, and a
\* started run ends when the clock advances
C8_TimeSafety ==
    Running /\ mode = "time" =>
        /\ \A i \in 1..(Len(best_values_time) - 1) : best_values_time[i] < maxTime
        /\ pc = "done" =>
              /\ time_elapsed >= maxTime
              /\ Len(best_values_time) > 0 =>
                    best_values_time[Len(best_values_time)] >= maxTime
                    /\ time_elapsed = best_values_time[Len(best_values_time)]
C8_TimeBudget ==
    []C8_TimeSafety /\ ((pc = "loop" /\ mode = "time") ~> (pc = "done"))
\* the loop is still running with the temperature below Tf
C8_Witness ==
    /\ ValidConfig /\ pc = "loop" /\ mode = "time"
    /\ time_elapsed < maxTime /\ T < Tf

\* C9: every run starts from the configured control state, whatever the
\* previous run left, and a run fed the draws of the previous run returns the
\* traces of the previous run
C9_Deterministic ==
    /\ pc = "loop" /\ nIter = 0 =>
          T = Ti0 /\ Ti = Ti0 /\ Tf = Tf0 /\ eps = eps0
    /\ Running /\ runs >= 2 =>
          /\ IsPrefix(best_values, prev[1].best_values)
          /\ IsPrefix(best_values_time, prev[1].best_values_time)
          /\ pc = "done" =>
                /\ best_values = prev[1].best_values
                /\ best_values_time = prev[1].best_values_time
C9_Witness ==
    /\ runs = 2 /\ pc = "done" /\ ValidConfig /\ mode = "iter"
    /\ Len(best_values) >= 3
    /\ \E i \in 1..Len(draws.steps) : draws.steps[i].r = "mid"
    /\ best_values = prev[1].best_values

\* ================================================ properties of abc_2.py
PopulationMin == employed_bee_solutions[min_sol_name(employed_bee_solutions)]
IterationEnd == phase \in {"update", "done"} \/ (phase = "employed" /\ bee = 1)
ScoutFires == phase = "scout" /\ abandon_food[bee] > AbandonLimit
ScoutResults(base) == {Perturb(base, r2, srch) : r2 \in Factors, srch \in SearchPoints}

\* C5: once the best value has changed by less than the convergence threshold
\* for StagnationRounds consecutive iterations, the main loop has ended
C5_StopsAfterStagnation == stagnant >= StagnationRounds => phase = "done"

\* C6: the best value never rises, and the best position changes only in a
\* step in which the best value strictly falls
C6_Step ==
    /\ ~VLess(hive_best_value, hive_best_value')
    /\ hive_best_sol' # hive_best_sol => VLess(hive_best_value', hive_best_value)
C6_BestNeverRollsBack == [][C6_Step]_vars
\* the incumbent came from a bee, and every bee is now worse than it
C6_Witness ==
    /\ phase = "employed" /\ bee = 1
    /\ VLess(hive_best_value, Scaled(10))
    /\ VLess(hive_best_value, PopulationMin)

\* C7: the selection weights are never computed with a zero sum of values
C7_ZeroSumHandled == \A n \in DOMAIN sol_prob : ~IsNaN(sol_prob[n])

\* C10 as stated: a bee over the abandonment limit is moved to a perturbation
\* of the incumbent best_sol and its counter is reset; at the end of every
\* iteration no counter is over the limit and the bees are the same
C10_CountersBounded ==
    /\ DOMAIN employed_bee_militia = Bees
    /\ DOMAIN employed_bee_solutions = Bees
    /\ DOMAIN abandon_food = Bees
    /\ IterationEnd => \A n \in Bees : abandon_food[n] <= AbandonLimit
C10_IncumbentStep ==
    ScoutFires =>
        /\ employed_bee_militia'[bee] \in ScoutResults(hive_best_sol)
        /\ abandon_food'[bee] = 0
C10_ScoutPerturbsIncumbent == []C10_CountersBounded /\ [][C10_IncumbentStep]_vars

\* C10 as amended: the bee is moved to a perturbation of the position of the
\* bee that holds the least value of the population at that moment
C10_PopulationStep ==
    ScoutFires =>
        /\ employed_bee_militia'[bee] \in
               ScoutResults(employed_bee_militia[min_sol_name(employed_bee_solutions)])
        /\ employed_bee_solutions'[bee] =
               hive_f(employed_bee_militia'[bee][1], employed_bee_militia'[bee][2])
        /\ abandon_food'[bee] = 0
        /\ \A n \in Bees \ {bee} :
               /\ employed_bee_militia'[n] = employed_bee_militia[n]
               /\ abandon_food'[n] = abandon_food[n]
C10_ScoutPerturbsPopulationMin ==
    []C10_CountersBounded /\ [][C10_PopulationStep]_vars
\* a bee the scout phase has just put on a copy of the population minimum's
\* position, which no perturbation of the incumbent yields
C10_Witness ==
    /\ phase = "update"
    /\ \E n \in Bees :
         /\ abandon_food[n] = 0
         /\ employed_bee_militia[n] = <<0, 10 * a>>
         /\ employed_bee_solutions[n] = hive_f(0, 10 * a)
         /\ employed_bee_militia[n] \notin ScoutResults(hive_best_sol)

\* C11: at every point of the run, from initialization onward, the cached
\* value of every bee is f at the position the bee holds, and a step replaces
\* the position and the cached value of a bee together or not at all
C11_Consistent ==
    \A n \in DOMAIN employed_bee_militia :
        employed_bee_solutions[n] =
            hive_f(employed_bee_militia[n][1], employed_bee_militia[n][2])
C11_Together ==
    \A n \in Bees :
        employed_bee_militia'[n] # employed_bee_militia[n] =>
            employed_bee_solutions'[n] =
                hive_f(employed_bee_militia'[n][1], employed_bee_militia'[n][2])
C11_CandidateConsistency == []C11_Consistent /\ [][C11_Together]_vars
====
